---- MODULE Spec2Model ----
(***************************************************************************)
(* Incremental indexing pipeline: scan -> batch -> fan-out embed ->        *)
(* finalize, with the document directory, the canonical manifest, the      *)
(* worker fragments and the vector-store collection as durable state.      *)
(***************************************************************************)
EXTENDS Integers, Sequences, FiniteSets, TLC

\* ------------------------------------------------------------------ bounds
\* reindex calls made in one behaviour
MaxRuns == 2
\* uploads and removals made in one behaviour
MaxEdits == 1
\* the batch builder's n_batches ranges over 1..MaxN
MaxN == 2
\* n_batches ranges over 1..MaxBuildN where only the batch builder is exercised
MaxBuildN == 4
\* reindex calls made on a volume that holds leftover fragments
MaxMergeRuns == 1
\* reindex calls made while files are shared and removed under the run
MaxRaceRuns == 1
\* reindex calls made over the archives of ZipEntryLists
MaxZipRuns == 1
\* config.EMBED_BATCH_SIZE (1024), scaled down
EmbedBatchSize == 2
\* entries of an archive of ZipEntryLists
MaxZipLen == 5
\* reindex calls made with the workers' flush taken step by step
MaxStoreRuns == 1
\* config.UPSERT_BATCH (5000), scaled down
UpsertBatch == 1
\* reindex calls made with the workers taken step by step and failing
MaxItemRuns == 1

\* threads calling IndexPipeline.reindex
Callers == {"c1", "c2", "c3"}
\* the threads that call reindex where two callers are enough
RunCallers == {"c1", "c2"}
NoOne == "none"
\* the callers that pass a reload_fn (the router always does)
PassesReload == {"c1"}

\* the file names of the docs directory, in lexicographic order
NameOrder == <<"a.txt", "b.txt", "c.txt", "d.txt", "e.txt", "y.zip", "z.zip">>
Names == {NameOrder[i] : i \in 1..Len(NameOrder)}
\* the names Documents.download_slack_files is called with
UploadNames == {"a.txt", "b.txt", "z.zip"}
\* the (st_mtime_ns, st_size) pairs a written file can get
Versions == {<<1, 11>>, <<11, 1>>, <<11, 11>>, <<1, 1>>}
\* the archives that can be uploaded: (st_mtime_ns, st_size, zf.namelist())
ZipVersions == {<<1, 11, << >> >>, <<11, 1, <<"d/", "e1", "e2">> >>, <<1, 1, <<"?">> >>}
NoEntries == << >>
\* the content of a file named .zip that is not a zip archive
Malformed == <<"?">>
\* manifest.json before the pipeline's first run: absent, or left unparseable
InitialManifests == {[exists |-> FALSE, ok |-> TRUE, map |-> [x \in {} |-> ""]],
                     [exists |-> TRUE, ok |-> FALSE, map |-> [x \in {} |-> ""]]}
\* what the docs directory can hold when the pipeline is constructed
InitialDocs == {[x \in {} |-> << >>],
                [x \in {"a.txt"} |-> [mtime |-> 1, size |-> 11, entries |-> << >>]]}

VARIABLES
    n_batches,      \* BatchBuilder._n
    docsDir,        \* the docs directory exists
    docs,           \* file name -> [mtime, size, entries] of the files in it
    manifest,       \* manifest.json: [exists, ok (it parses), map]
    fragments,      \* worker id -> the map in manifest-worker-{id}.json
    collection,     \* the chunks of the vector-store collection
    lock,           \* IndexPipeline._lock: its holder, or NoOne
    pc,             \* each caller's position in reindex
    force,          \* reindex's force argument, per caller
    reload_fn,      \* whether a reload callback was passed, per caller
    files,          \* the scan's result, per caller
    workers,        \* the fan-out: a sequence of worker records, per caller
    failures,       \* _embed's failures counter, per caller
    total_chunks,   \* _embed's total_chunks counter, per caller
    warned,         \* the arguments of the warning status, <<>> when none was sent
    reloaded,       \* reload_fn was invoked in this run, per caller
    result,         \* what reindex returns or raises, per caller
    runId,          \* the number of the caller's run
    runs,           \* reindex calls made so far
    edits,          \* uploads and removals made so far
    scanSnap,       \* history: the durable state when the caller's scan ran
    lastRet,        \* history: the run that has just returned, <<>> once the next scans
    prevRet,        \* history: the summary of the run that returned before
    lastCrash,      \* history: the run that has just crashed, <<>> once the next scans
    fragSrc         \* history: worker id -> the chunks of the item that wrote the fragment

durable == <<docsDir, docs, manifest, fragments, collection>>
locals == <<force, reload_fn, files, workers, failures, total_chunks, warned, reloaded, result, runId>>
history == <<scanSnap, lastRet, prevRet, lastCrash, fragSrc>>
vars == <<n_batches, durable, lock, pc, locals, runs, edits, history>>

\* ----------------------------------------------------------------- helpers
EmptyMap == [x \in {} |-> ""]
MapPut(m, k, v) == [x \in DOMAIN m \cup {k} |-> IF x = k THEN v ELSE m[x]]
\* dict.update
MapUpdate(m, u) == [x \in DOMAIN m \cup DOMAIN u |-> IF x \in DOMAIN u THEN u[x] ELSE m[x]]
MapDel(m, k) == [x \in DOMAIN m \ {k} |-> m[x]]
Range(s) == {s[i] : i \in 1..Len(s)}

IsZip(name) == name \in {"y.zip", "z.zip"}
IsDirEntry(e) == e \in {"d/"}

NameIndex(name) == CHOOSE i \in 1..Len(NameOrder) : NameOrder[i] = name
NameLess(a, b) == NameIndex(a) < NameIndex(b)

RECURSIVE Sorted(_)
Sorted(S) ==
    IF S = {} THEN << >>
    ELSE LET m == CHOOSE x \in S : \A y \in S \ {x} : NameLess(x, y)
         IN <<m>> \o Sorted(S \ {m})

\* --------------------------------------------------------------- scanner
Fingerprint_NoSeparator(rec) == ToString(rec.mtime) \o ToString(rec.size)

Fingerprint(rec) == ToString(rec.mtime) \o ":" \o ToString(rec.size)

\* dict.get: None for an absent key
ManifestGet(m, name) == IF name \in DOMAIN m THEN m[name] ELSE "None"

\* Scanner._load_manifest: any failure to read gives {}
Scanner_load_manifest == IF manifest.exists /\ manifest.ok THEN manifest.map ELSE EmptyMap

Selected(frc, name) ==
    frc \/ ManifestGet(Scanner_load_manifest, name) # Fingerprint(docs[name])

ScanFiles(frc) ==
    IF ~docsDir THEN << >>
    ELSE SelectSeq(Sorted(DOMAIN docs), LAMBDA p : Selected(frc, p))

\* empty_result answering "already indexed" whatever the directory holds
EmptyResult_AlwaysIndexed == "already_indexed"

\* Scanner.empty_result
EmptyResult ==
    IF ~docsDir THEN "no_documents"
    ELSE IF \E p \in DOMAIN docs : p \in DOMAIN Scanner_load_manifest
         THEN "already_indexed"
         ELSE "no_documents"

\* --------------------------------------------------------- batch builder
Min(a, b) == IF a < b THEN a ELSE b

\* _chunk always giving n slices, the last ones empty
Chunk_Padded(items, n) ==
    LET size == (Len(items) + n - 1) \div n
    IN [j \in 1..n |-> SubSeq(items, Min((j - 1) * size, Len(items)) + 1,
                                     Min(j * size, Len(items)))]

\* BatchBuilder._chunk
Chunk(items, n) ==
    IF items = << >> THEN << >>
    ELSE LET size == (Len(items) + n - 1) \div n
             cnt == (Len(items) + size - 1) \div size
         IN [j \in 1..cnt |-> SubSeq(items, (j - 1) * size + 1, Min(j * size, Len(items)))]

FilesItem(paths) == [type |-> "files", paths |-> paths, zip_path |-> "", entries |-> << >>]
ZipItem(path, ents) == [type |-> "zip_entries", paths |-> << >>, zip_path |-> path, entries |-> ents]

\* zf.namelist() taken whole, directories included
ZipEntryNames_WithDirs(path) == docs[path].entries

\* the entries of an archive that are not directories
ZipEntryNames(path) == SelectSeq(docs[path].entries, LAMBDA e : ~IsDirEntry(e))

RECURSIVE ZipBatches(_, _)
ZipBatches(paths, n) ==
    IF paths = << >> THEN << >>
    ELSE LET path == Head(paths)
             rest == ZipBatches(Tail(paths), n)
         IN IF ~IsZip(path) THEN rest
            ELSE LET chunks == Chunk(ZipEntryNames(path), n)
                 IN [j \in 1..Len(chunks) |-> ZipItem(path, chunks[j])] \o rest

\* build listing the batches in an order that depends on the call
Build_OrderByCall(paths, n) ==
    LET regular == SelectSeq(paths, LAMBDA f : ~IsZip(f))
        chunks == Chunk(regular, n)
        b == [j \in 1..Len(chunks) |-> FilesItem(chunks[j])] \o ZipBatches(paths, n)
    IN IF runs % 2 = 1 THEN b ELSE [j \in 1..Len(b) |-> b[Len(b) + 1 - j]]

\* BatchBuilder.build: the batches
Build(paths, n) ==
    LET regular == SelectSeq(paths, LAMBDA f : ~IsZip(f))
        chunks == Chunk(regular, n)
    IN [j \in 1..Len(chunks) |-> FilesItem(chunks[j])] \o ZipBatches(paths, n)

\* zipfile.ZipFile(path) raises when the file is gone or is not a zip archive
ZipFileRaises(path) == path \notin DOMAIN docs \/ docs[path].entries = Malformed
BuildRaises(paths) == \E i \in 1..Len(paths) : IsZip(paths[i]) /\ ZipFileRaises(paths[i])

\* ---------------------------------------------------------- embed worker
\* the chunk of one parsed text unit; node ids are fresh per embedding
ChunkOf(run, wid, k, source, filename, text) ==
    [id |-> <<run, wid, k>>, source |-> source, filename |-> filename, text |-> text]

\* FileParser._embed_files
ParseFilesRaises(work) == \E i \in 1..Len(work.paths) : work.paths[i] \notin DOMAIN docs
ParseFiles(run, wid, work) ==
    {ChunkOf(run, wid, i, work.paths[i], "", Fingerprint(docs[work.paths[i]])) :
        i \in 1..Len(work.paths)}

\* entries whose bytes cannot be read or parsed, and entries of blank text
UnreadableEntries == {"u1"}
BlankEntries == {"w1"}
EntryText(name) == IF name \in BlankEntries THEN " " ELSE name
Strip(text) == IF text \in {"", " "} THEN "" ELSE text

\* FileParser._read_entry: << >> stands for None, <<text>> for the text read
ReadEntry(archive, name) ==
    IF name \notin Range(archive) \/ name \in UnreadableEntries
    THEN << >>
    ELSE <<EntryText(name)>>
\* if text and text.strip()
HasText(r) == r # << >> /\ r[1] # "" /\ Strip(r[1]) # ""

\* the loop of _iter_zip_batches without the last "if batch: yield batch"
RECURSIVE ZipBatchLoop_NoTail(_, _, _, _)
ZipBatchLoop_NoTail(entries, archive, batch, out) ==
    IF entries = << >> THEN out
    ELSE LET b1 == IF HasText(ReadEntry(archive, Head(entries)))
                   THEN Append(batch, Head(entries)) ELSE batch
         IN IF Len(b1) >= EmbedBatchSize
            THEN ZipBatchLoop_NoTail(Tail(entries), archive, << >>, Append(out, b1))
            ELSE ZipBatchLoop_NoTail(Tail(entries), archive, b1, out)

\* the loop of _iter_zip_batches: batch is the batch being filled, out the
\* batches yielded so far; a unit is named by its entry
RECURSIVE ZipBatchLoop(_, _, _, _)
ZipBatchLoop(entries, archive, batch, out) ==
    IF entries = << >>
    THEN IF batch # << >> THEN Append(out, batch) ELSE out
    ELSE LET b1 == IF HasText(ReadEntry(archive, Head(entries)))
                   THEN Append(batch, Head(entries)) ELSE batch
         IN IF Len(b1) >= EmbedBatchSize
            THEN ZipBatchLoop(Tail(entries), archive, << >>, Append(out, b1))
            ELSE ZipBatchLoop(Tail(entries), archive, b1, out)

IterZipBatches(entries, archive) == ZipBatchLoop(entries, archive, << >>, << >>)
BatchUnits(batches) == UNION {Range(batches[b]) : b \in 1..Len(batches)}

\* FileParser._embed_zip: the chunks of the units of every yielded batch
ParseZipRaises(work) == ZipFileRaises(work.zip_path)
ParseZip(run, wid, work) ==
    {ChunkOf(run, wid, i, work.zip_path, work.entries[i], Fingerprint(docs[work.zip_path])) :
        i \in {j \in 1..Len(work.entries) :
                  work.entries[j] \in
                      BatchUnits(IterZipBatches(work.entries, docs[work.zip_path].entries))}}

ParseRaises(work) ==
    IF work.type = "files" THEN ParseFilesRaises(work) ELSE ParseZipRaises(work)
Parse(run, wid, work) ==
    IF work.type = "files" THEN ParseFiles(run, wid, work) ELSE ParseZip(run, wid, work)

\* ChunkStore.write_manifest: the paths it stats
ItemPaths(work) == IF work.type = "files" THEN work.paths ELSE <<work.zip_path>>
ItemNames(work) == Range(ItemPaths(work))
WriteManifestRaises(work) == \E p \in ItemNames(work) : p \notin DOMAIN docs
\* ChunkStore.write_manifest: f"{stat.st_mtime_ns}:{stat.st_size}"
StatString(rec) == ToString(rec.mtime) \o ":" \o ToString(rec.size)
FragmentOf(work) == [p \in ItemNames(work) |-> StatString(docs[p])]

\* collection.upsert: a chunk replaces the one with its id
Upsert(coll, chunks) ==
    {ch \in coll : \A new \in chunks : new.id # ch.id} \cup chunks

NewWorker(work) == [work |-> work, st |-> "queued", pending |-> {}, total |-> 0]
Finished(w) == w.st \in {"done", "failed"}

\* ------------------------------------------------------------- finalizer
RECURSIVE Digits(_)
Digits(k) == IF k < 10 THEN <<k>> ELSE Digits(k \div 10) \o <<k % 10>>

RECURSIVE LexLess(_, _)
LexLess(s, t) ==
    IF t = << >> THEN FALSE
    ELSE IF s = << >> THEN TRUE
    ELSE IF Head(s) # Head(t) THEN Head(s) < Head(t)
    ELSE LexLess(Tail(s), Tail(t))

\* sorted() of the paths manifest-worker-{id}.json
RECURSIVE SortedFragments(_)
SortedFragments(S) ==
    IF S = {} THEN << >>
    ELSE LET m == CHOOSE x \in S : \A y \in S \ {x} : LexLess(Digits(x), Digits(y))
         IN <<m>> \o SortedFragments(S \ {m})

RECURSIVE MergeAll(_, _, _)
MergeAll(m, frags, order) ==
    IF order = << >> THEN m
    ELSE MergeAll(MapUpdate(m, frags[Head(order)]), frags, Tail(order))

\* _merge_worker_manifests: json.loads raises on an unparseable manifest.json,
\* which a forced run has unlinked before
FinalizeRaises(frc) == manifest.exists /\ ~manifest.ok /\ ~frc

\* _reset_collection followed by _merge_worker_manifests
FinalManifestExists(frc) == manifest.exists /\ ~frc
\* the fragments merged when _reset_collection unlinks nothing
FinalFragments_Keep(frc) == fragments
FinalFragments(frc) == IF frc THEN EmptyMap ELSE fragments
FinalCollection(frc) == IF frc THEN {} ELSE collection
\* the merge starting from {} instead of the loaded manifest.json
FinalMap_FragmentsOnly(frc) ==
    MergeAll(EmptyMap, FinalFragments(frc), SortedFragments(DOMAIN FinalFragments(frc)))

FinalMap(frc) ==
    MergeAll(IF FinalManifestExists(frc) THEN manifest.map ELSE EmptyMap,
             FinalFragments(frc), SortedFragments(DOMAIN FinalFragments(frc)))

DoneResult(chunks, nfiles) == [kind |-> "done", chunks |-> chunks, files |-> nfiles, msg |-> ""]
EmptyExit(msg) == [kind |-> "empty", chunks |-> 0, files |-> 0, msg |-> msg]
Raised == [kind |-> "raised", chunks |-> 0, files |-> 0, msg |-> ""]
FinalizeRaised == [kind |-> "raised", chunks |-> 0, files |-> 0, msg |-> "JSONDecodeError"]
NoResult == [kind |-> "none", chunks |-> 0, files |-> 0, msg |-> ""]

\* ------------------------------------------------------------------ state
InitIdle ==
    /\ docsDir = (DOMAIN docs # {})
    /\ collection = {}
    /\ lock = NoOne
    /\ pc = [c \in Callers |-> "idle"]
    /\ force = [c \in Callers |-> FALSE]
    /\ reload_fn = [c \in Callers |-> FALSE]
    /\ files = [c \in Callers |-> << >>]
    /\ workers = [c \in Callers |-> << >>]
    /\ failures = [c \in Callers |-> 0]
    /\ total_chunks = [c \in Callers |-> 0]
    /\ warned = [c \in Callers |-> << >>]
    /\ reloaded = [c \in Callers |-> FALSE]
    /\ result = [c \in Callers |-> NoResult]
    /\ runId = [c \in Callers |-> 0]
    /\ runs = 0
    /\ edits = 0
    /\ scanSnap = [c \in Callers |-> << >>]
    /\ lastRet = << >>
    /\ prevRet = << >>
    /\ lastCrash = << >>
    /\ fragSrc = EmptyMap

Init ==
    /\ n_batches \in 1..MaxN
    /\ docs \in InitialDocs
    /\ manifest \in InitialManifests
    /\ fragments = EmptyMap
    /\ InitIdle

\* the docs directories the batch builder is exercised on: any subset of the
\* plain names, and each archive absent or with one of BuildEntries
BuildEntries == {<< >>, <<"d/", "e1">>, <<"e1", "d/", "e2", "e3">>,
                 <<"e1", "e2", "e3", "e4", "e5">>}
PlainDocs ==
    {[p \in S |-> [mtime |-> 1, size |-> 11, entries |-> NoEntries]] :
        S \in SUBSET {x \in Names : ~IsZip(x)}}
ZipDocs ==
    UNION {[S -> {[mtime |-> 11, size |-> 1, entries |-> e] : e \in BuildEntries}] :
        S \in SUBSET {x \in Names : IsZip(x)}}
BuildDocs == {MapUpdate(pl, zp) : pl \in PlainDocs, zp \in ZipDocs}

InitBuild ==
    /\ n_batches \in 1..MaxBuildN
    /\ docs \in BuildDocs
    /\ manifest = [exists |-> FALSE, ok |-> TRUE, map |-> EmptyMap]
    /\ fragments = EmptyMap
    /\ InitIdle

\* a volume on which an earlier process died after workers 2 and 10 of its
\* run had written their fragments, and b.txt was shared since
LeftoverIds == {2, 10}
FragmentMaps ==
    {[x \in {"a.txt"} |-> "1:11"], [x \in {"a.txt"} |-> "11:1"],
     [x \in {"z.zip"} |-> "11:1"], [x \in {"a.txt", "z.zip"} |-> "1:11"]}
LeftoverFragments == UNION {[S -> FragmentMaps] : S \in SUBSET LeftoverIds}
MergeManifests ==
    {[exists |-> FALSE, ok |-> TRUE, map |-> EmptyMap],
     [exists |-> TRUE, ok |-> TRUE, map |-> [x \in {"a.txt", "z.zip"} |-> "1:1"]]}
MergeDocs == {[x \in {"b.txt"} |-> [mtime |-> 1, size |-> 11, entries |-> NoEntries]]}

InitMerge ==
    /\ n_batches \in 1..MaxN
    /\ docs \in MergeDocs
    /\ manifest \in MergeManifests
    /\ fragments \in LeftoverFragments
    /\ InitIdle

\* the durable state, as the histories record it
Snapshot ==
    [docsDir |-> docsDir, docs |-> docs, manifest |-> manifest,
     fragments |-> fragments, collection |-> collection, edits |-> edits]

\* a docs directory whose files are re-shared or removed while a run embeds
RaceDocs ==
    {[x \in {"a.txt", "b.txt"} |-> [mtime |-> 1, size |-> 11, entries |-> NoEntries]],
     [x \in {"z.zip"} |-> [mtime |-> 11, size |-> 1, entries |-> <<"d/", "e1", "e2">>]]}

\* archives holding readable, unreadable and blank entries
ZipEntryPool == {"e1", "e2", "e3", "u1", "w1"}
ZipEntryLists ==
    {e \in UNION {[1..k -> ZipEntryPool] : k \in 0..MaxZipLen} :
        \A i, j \in 1..Len(e) : e[i] = e[j] => i = j}

InitZip ==
    /\ n_batches \in 1..MaxN
    /\ docs \in {[x \in {"z.zip"} |-> [mtime |-> 11, size |-> 1, entries |-> e]] :
                    e \in ZipEntryLists}
    /\ manifest = [exists |-> FALSE, ok |-> TRUE, map |-> EmptyMap]
    /\ fragments = EmptyMap
    /\ InitIdle

\* docs directories giving one item of two files, or several items
StoreDocs ==
    {[x \in S |-> [mtime |-> 1, size |-> 11, entries |-> NoEntries]] :
        S \in {{"a.txt", "b.txt"}, {"a.txt", "b.txt", "c.txt"}}}

InitStore ==
    /\ n_batches \in 1..MaxBuildN
    /\ docs \in StoreDocs
    /\ manifest = [exists |-> FALSE, ok |-> TRUE, map |-> EmptyMap]
    /\ fragments = EmptyMap
    /\ InitIdle

InitRace ==
    /\ n_batches \in 1..MaxN
    /\ docs \in RaceDocs
    /\ manifest = [exists |-> FALSE, ok |-> TRUE, map |-> EmptyMap]
    /\ fragments = EmptyMap
    /\ InitIdle

\* ------------------------------------------------------------- documents
\* a run is in progress or can still be started: later edits are seen by no run
RunPossible == runs < MaxRuns \/ \E c \in Callers : pc[c] # "idle"

\* Documents.download_slack_files, for one shared file
Upload(name, mt, sz, ents) ==
    /\ edits < MaxEdits
    /\ RunPossible
    /\ docsDir' = TRUE
    /\ docs' = MapPut(docs, name, [mtime |-> mt, size |-> sz, entries |-> ents])
    /\ edits' = edits + 1
    /\ UNCHANGED <<n_batches, manifest, fragments, collection, lock, pc, locals, runs, history>>

\* Documents.remove_source, for a file that exists
RemoveSource(name) ==
    /\ edits < MaxEdits
    /\ RunPossible
    /\ name \in DOMAIN docs
    /\ docs' = MapDel(docs, name)
    /\ edits' = edits + 1
    /\ UNCHANGED <<n_batches, docsDir, manifest, fragments, collection, lock, pc, locals, runs, history>>

\* ---------------------------------------------------------- orchestrator
\* a thread calls reindex and waits for the lock; max bounds the calls made
CallUpTo(c, max) ==
    /\ pc[c] = "idle"
    /\ runs < max
    /\ runs' = runs + 1
    /\ runId' = [runId EXCEPT ![c] = runs + 1]
    /\ pc' = [pc EXCEPT ![c] = "wait"]
    /\ UNCHANGED <<n_batches, durable, lock, force, reload_fn, files, workers, failures,
                   total_chunks, warned, reloaded, result, edits, history>>

Call(c) == CallUpTo(c, MaxRuns)

\* a thread calls reindex, any number of times over the life of the process;
\* its runs are told apart from the other threads' by the thread
CallerIndex(c) == IF c = "c1" THEN 1 ELSE IF c = "c2" THEN 2 ELSE 3
CallAgain(c) ==
    /\ pc[c] = "idle"
    /\ runId' = [runId EXCEPT ![c] = CallerIndex(c)]
    /\ pc' = [pc EXCEPT ![c] = "wait"]
    /\ UNCHANGED <<n_batches, durable, lock, force, reload_fn, files, workers, failures,
                   total_chunks, warned, reloaded, result, runs, edits, history>>

\* what is kept of a returned run once the next one has started
RunSummary(r) ==
    [run |-> r.run, force |-> r.force, files |-> r.files, items |-> r.items,
     failures |-> r.failures,
     kind |-> r.result.kind, editsAtScan |-> r.atScan[1].edits,
     manifest |-> r.atEnd.manifest, count |-> Cardinality(r.atEnd.collection),
     edits |-> r.atEnd.edits]

\* Acquire entered without waiting for the lock
Acquire_NoLock(c, frc, rl) ==
    /\ pc[c] = "wait"
    /\ lock' = c
    /\ force' = [force EXCEPT ![c] = frc]
    /\ reload_fn' = [reload_fn EXCEPT ![c] = rl]
    /\ pc' = [pc EXCEPT ![c] = "scan"]
    /\ prevRet' = IF lastRet = << >> THEN prevRet ELSE <<RunSummary(lastRet[1])>>
    /\ lastRet' = << >>
    /\ lastCrash' = << >>
    /\ UNCHANGED <<n_batches, durable, files, workers, failures, total_chunks, warned,
                   reloaded, result, runId, runs, edits, scanSnap, fragSrc>>

\* with self._lock: the arguments force and reload_fn are first read inside
Acquire(c, frc, rl) ==
    /\ pc[c] = "wait"
    /\ lock = NoOne
    /\ lock' = c
    /\ force' = [force EXCEPT ![c] = frc]
    /\ reload_fn' = [reload_fn EXCEPT ![c] = rl]
    /\ pc' = [pc EXCEPT ![c] = "scan"]
    /\ prevRet' = IF lastRet = << >> THEN prevRet ELSE <<RunSummary(lastRet[1])>>
    /\ lastRet' = << >>
    /\ lastCrash' = << >>
    /\ UNCHANGED <<n_batches, durable, files, workers, failures, total_chunks, warned,
                   reloaded, result, runId, runs, edits, scanSnap, fragSrc>>

\* Scan recording the fingerprints of the files it selects in manifest.json
Scan_WritesManifest(c) ==
    /\ pc[c] = "scan"
    /\ files' = [files EXCEPT ![c] = ScanFiles(force[c])]
    /\ scanSnap' = [scanSnap EXCEPT ![c] = <<Snapshot>>]
    /\ manifest' = [exists |-> TRUE, ok |-> TRUE,
                    map |-> MapUpdate(Scanner_load_manifest,
                               [p \in Range(ScanFiles(force[c])) |-> Fingerprint(docs[p])])]
    /\ IF ScanFiles(force[c]) = << >>
       THEN /\ result' = [result EXCEPT ![c] = EmptyExit(EmptyResult)]
            /\ pc' = [pc EXCEPT ![c] = "return"]
       ELSE /\ pc' = [pc EXCEPT ![c] = "build"]
            /\ UNCHANGED result
    /\ UNCHANGED <<n_batches, docsDir, docs, fragments, collection, lock, force, reload_fn,
                   workers, failures, total_chunks, warned, reloaded, runId, runs, edits,
                   lastRet, prevRet, lastCrash, fragSrc>>

\* Scan without the early return on an empty selection
Scan_EmptyGoesOn(c) ==
    /\ pc[c] = "scan"
    /\ files' = [files EXCEPT ![c] = ScanFiles(force[c])]
    /\ scanSnap' = [scanSnap EXCEPT ![c] = <<Snapshot>>]
    /\ pc' = [pc EXCEPT ![c] = "build"]
    /\ UNCHANGED <<n_batches, durable, lock, force, reload_fn, workers, failures,
                   total_chunks, warned, reloaded, result, runId, runs, edits,
                   lastRet, prevRet, lastCrash, fragSrc>>

\* files = self._scanner.scan(force); if not files: return empty_result()
Scan(c) ==
    /\ pc[c] = "scan"
    /\ files' = [files EXCEPT ![c] = ScanFiles(force[c])]
    /\ scanSnap' = [scanSnap EXCEPT ![c] = <<Snapshot>>]
    /\ IF ScanFiles(force[c]) = << >>
       THEN /\ result' = [result EXCEPT ![c] = EmptyExit(EmptyResult)]
            /\ pc' = [pc EXCEPT ![c] = "return"]
       ELSE /\ pc' = [pc EXCEPT ![c] = "build"]
            /\ UNCHANGED result
    /\ UNCHANGED <<n_batches, durable, lock, force, reload_fn, workers, failures,
                   total_chunks, warned, reloaded, runId, runs, edits,
                   lastRet, prevRet, lastCrash, fragSrc>>

\* scan raises (volume.reload() fails, or a file is gone between iterdir and
\* stat): the exception leaves reindex
ScanFail(c) ==
    /\ pc[c] = "scan"
    /\ scanSnap' = [scanSnap EXCEPT ![c] = <<Snapshot>>]
    /\ result' = [result EXCEPT ![c] = Raised]
    /\ pc' = [pc EXCEPT ![c] = "return"]
    /\ UNCHANGED <<n_batches, durable, lock, force, reload_fn, files, workers, failures,
                   total_chunks, warned, reloaded, runId, runs, edits,
                   lastRet, prevRet, lastCrash, fragSrc>>

\* _embed: build the batches and fan them out with worker ids 0..len-1
BuildBatches(c) ==
    /\ pc[c] = "build"
    /\ IF BuildRaises(files[c])
       THEN /\ result' = [result EXCEPT ![c] = Raised]
            /\ pc' = [pc EXCEPT ![c] = "return"]
            /\ UNCHANGED workers
       ELSE /\ workers' = [workers EXCEPT ![c] =
                   LET b == Build(files[c], n_batches)
                   IN [j \in 1..Len(b) |-> NewWorker(b[j])]]
            /\ pc' = [pc EXCEPT ![c] = "embed"]
            /\ UNCHANGED result
    /\ UNCHANGED <<n_batches, durable, lock, force, reload_fn, files, failures,
                   total_chunks, warned, reloaded, runId, runs, edits, history>>

\* ---------------------------------------------------------- embed worker
SetWorker(c, i, w) == workers' = [workers EXCEPT ![c][i] = w]

\* WorkerParseFlush with the upserts left out
WorkerParseFlush_NoUpsert(c, i) ==
    /\ pc[c] = "embed"
    /\ i \in 1..Len(workers[c])
    /\ workers[c][i].st = "queued"
    /\ LET w == workers[c][i]
       IN IF ParseRaises(w.work)
          THEN SetWorker(c, i, [w EXCEPT !.st = "failed"])
          ELSE LET chunks == Parse(runId[c], i - 1, w.work)
               IN SetWorker(c, i, [w EXCEPT !.st = "flushed", !.pending = chunks,
                                            !.total = Cardinality(chunks)])
    /\ UNCHANGED <<n_batches, durable, lock, pc, force, reload_fn, files, failures,
                   total_chunks, warned, reloaded, result, runId, runs, edits, history>>

\* EmbedWorker.embed: self._parser.embed(work), then self._store.flush(pending, worker_id)
WorkerParseFlush(c, i) ==
    /\ pc[c] = "embed"
    /\ i \in 1..Len(workers[c])
    /\ workers[c][i].st = "queued"
    /\ LET w == workers[c][i]
       IN IF ParseRaises(w.work)
          THEN /\ SetWorker(c, i, [w EXCEPT !.st = "failed"])
               /\ UNCHANGED collection
          ELSE LET chunks == Parse(runId[c], i - 1, w.work)
               IN /\ collection' = Upsert(collection, chunks)
                  /\ SetWorker(c, i, [w EXCEPT !.st = "flushed", !.pending = chunks,
                                               !.total = Cardinality(chunks)])
    /\ UNCHANGED <<n_batches, docsDir, docs, manifest, fragments, lock, pc, force,
                   reload_fn, files, failures, total_chunks, warned, reloaded, result,
                   runId, runs, edits, history>>

\* ---- EmbedWorker.embed step by step, the work items of a run being inputs
\* that one worker process handles concurrently (modal.concurrent)
\* the parser upserting the chunks of each file as soon as they are embedded
WorkerParse_UpsertsAsItGoes(c, i) ==
    /\ pc[c] = "embed"
    /\ i \in 1..Len(workers[c])
    /\ workers[c][i].st = "queued"
    /\ LET w == workers[c][i]
       IN IF ParseRaises(w.work)
          THEN /\ SetWorker(c, i, [w EXCEPT !.st = "failed"])
               /\ UNCHANGED collection
          ELSE LET chunks == Parse(runId[c], i - 1, w.work)
               IN /\ SetWorker(c, i, [w EXCEPT !.st = "parsed", !.pending = chunks,
                                               !.total = Cardinality(chunks)])
                  /\ collection' = Upsert(collection, chunks)
    /\ UNCHANGED <<n_batches, docsDir, docs, manifest, fragments, lock, pc, force, reload_fn, files, failures,
                   total_chunks, warned, reloaded, result, runId, runs, edits, history>>

\* self._parser.embed(work): the chunks are embedded, none is upserted yet
WorkerParse(c, i) ==
    /\ pc[c] = "embed"
    /\ i \in 1..Len(workers[c])
    /\ workers[c][i].st = "queued"
    /\ LET w == workers[c][i]
       IN IF ParseRaises(w.work)
          THEN SetWorker(c, i, [w EXCEPT !.st = "failed"])
          ELSE LET chunks == Parse(runId[c], i - 1, w.work)
               IN SetWorker(c, i, [w EXCEPT !.st = "parsed", !.pending = chunks,
                                            !.total = Cardinality(chunks)])
    /\ UNCHANGED <<n_batches, durable, lock, pc, force, reload_fn, files, failures,
                   total_chunks, warned, reloaded, result, runId, runs, edits, history>>

\* self._lock of the process's ChunkStore is held by the input inside "with self._lock"
StoreLockHeld == \E c \in Callers : \E i \in 1..Len(workers[c]) : workers[c][i].st = "upserting"

\* ChunkStore.flush entering the upsert loop without taking self._lock
FlushBegin_NoLock(c, i) ==
    /\ pc[c] = "embed"
    /\ i \in 1..Len(workers[c])
    /\ workers[c][i].st = "parsed"
    /\ SetWorker(c, i, [workers[c][i] EXCEPT
           !.st = IF workers[c][i].pending = {} THEN "flushed" ELSE "upserting"])
    /\ UNCHANGED <<n_batches, durable, lock, pc, force, reload_fn, files, failures,
                   total_chunks, warned, reloaded, result, runId, runs, edits, history>>

\* ChunkStore.flush: returns at once when nothing is pending, else waits for
\* self._lock and enters the upsert loop
FlushBegin(c, i) ==
    /\ pc[c] = "embed"
    /\ i \in 1..Len(workers[c])
    /\ workers[c][i].st = "parsed"
    /\ workers[c][i].pending # {} => ~StoreLockHeld
    /\ SetWorker(c, i, [workers[c][i] EXCEPT
           !.st = IF workers[c][i].pending = {} THEN "flushed" ELSE "upserting"])
    /\ UNCHANGED <<n_batches, durable, lock, pc, force, reload_fn, files, failures,
                   total_chunks, warned, reloaded, result, runId, runs, edits, history>>

\* the pending chunks not upserted yet, and the next UPSERT_BATCH of them
NotUpserted(w) == {ch \in w.pending : ch \notin collection}
NextUpsert(w) ==
    {ch \in NotUpserted(w) :
        Cardinality({o \in NotUpserted(w) : o.id[3] < ch.id[3]}) < UpsertBatch}

\* one self._collection.upsert call of the loop
FlushUpsert(c, i) ==
    /\ pc[c] = "embed"
    /\ i \in 1..Len(workers[c])
    /\ workers[c][i].st = "upserting"
    /\ NotUpserted(workers[c][i]) # {}
    /\ collection' = Upsert(collection, NextUpsert(workers[c][i]))
    /\ UNCHANGED <<n_batches, docsDir, docs, manifest, fragments, lock, pc, locals,
                   runs, edits, history>>

\* the loop is over: the with block is left and self._lock released
FlushEnd(c, i) ==
    /\ pc[c] = "embed"
    /\ i \in 1..Len(workers[c])
    /\ workers[c][i].st = "upserting"
    /\ NotUpserted(workers[c][i]) = {}
    /\ SetWorker(c, i, [workers[c][i] EXCEPT !.st = "flushed"])
    /\ UNCHANGED <<n_batches, durable, lock, pc, force, reload_fn, files, failures,
                   total_chunks, warned, reloaded, result, runId, runs, edits, history>>

\* WorkerWriteManifest writing to manifest.json instead of manifest-worker-{id}.json
WorkerWriteManifest_ToCanonical(c, i) ==
    /\ pc[c] = "embed"
    /\ i \in 1..Len(workers[c])
    /\ workers[c][i].st = "flushed"
    /\ LET w == workers[c][i]
       IN IF WriteManifestRaises(w.work)
          THEN /\ SetWorker(c, i, [w EXCEPT !.st = "failed", !.pending = {}])
               /\ UNCHANGED manifest
          ELSE /\ manifest' = [exists |-> TRUE, ok |-> TRUE, map |-> FragmentOf(w.work)]
               /\ SetWorker(c, i, [w EXCEPT !.st = "done"])
    /\ UNCHANGED <<n_batches, docsDir, docs, fragments, collection, lock, pc, force,
                   reload_fn, files, failures, total_chunks, warned, reloaded, result,
                   runId, runs, edits, history>>

\* WorkerWriteManifest with worker ids reused modulo N
WorkerWriteManifest_SharedId(c, i) ==
    /\ pc[c] = "embed"
    /\ i \in 1..Len(workers[c])
    /\ workers[c][i].st = "flushed"
    /\ LET w == workers[c][i]
       IN IF WriteManifestRaises(w.work)
          THEN /\ SetWorker(c, i, [w EXCEPT !.st = "failed", !.pending = {}])
               /\ UNCHANGED <<fragments, fragSrc>>
          ELSE /\ fragments' = MapPut(fragments, (i - 1) % n_batches, FragmentOf(w.work))
               /\ fragSrc' = MapPut(fragSrc, (i - 1) % n_batches, w.pending)
               /\ SetWorker(c, i, [w EXCEPT !.st = "done"])
    /\ UNCHANGED <<n_batches, docsDir, docs, manifest, collection, lock, pc, force,
                   reload_fn, files, failures, total_chunks, warned, reloaded, result,
                   runId, runs, edits, scanSnap, lastRet, prevRet, lastCrash>>

\* EmbedWorker.embed: self._store.write_manifest(worker_id, work), then return
WorkerWriteManifest(c, i) ==
    /\ pc[c] = "embed"
    /\ i \in 1..Len(workers[c])
    /\ workers[c][i].st = "flushed"
    /\ LET w == workers[c][i]
       IN IF WriteManifestRaises(w.work)
          THEN /\ SetWorker(c, i, [w EXCEPT !.st = "failed", !.pending = {}])
               /\ UNCHANGED <<fragments, fragSrc>>
          ELSE /\ fragments' = MapPut(fragments, i - 1, FragmentOf(w.work))
               /\ fragSrc' = MapPut(fragSrc, i - 1, w.pending)
               /\ SetWorker(c, i, [w EXCEPT !.st = "done"])
    /\ UNCHANGED <<n_batches, docsDir, docs, manifest, collection, lock, pc, force,
                   reload_fn, files, failures, total_chunks, warned, reloaded, result,
                   runId, runs, edits, scanSnap, lastRet, prevRet, lastCrash>>

\* the embedding backend fails, the worker crashes or its timeout expires: before
\* its first upsert (as when parsing raises) or between the upserts and the fragment
WorkerFail(c, i) ==
    /\ pc[c] = "embed"
    /\ i \in 1..Len(workers[c])
    /\ workers[c][i].st \in {"queued", "flushed"}
    /\ SetWorker(c, i, [workers[c][i] EXCEPT !.st = "failed", !.pending = {}])
    /\ UNCHANGED <<n_batches, durable, lock, pc, force, reload_fn, files, failures,
                   total_chunks, warned, reloaded, result, runId, runs, edits, history>>

\* ---------------------------------------------------------- orchestrator
\* the loop over the results stopping at the first exception
CountFailed_StopAtFirst(ws) == IF \E i \in 1..Len(ws) : ws[i].st = "failed" THEN 1 ELSE 0

CountFailed(ws) == Cardinality({i \in 1..Len(ws) : ws[i].st = "failed"})

RECURSIVE SumTotals(_)
SumTotals(ws) ==
    IF ws = << >> THEN 0
    ELSE (IF Head(ws).st = "done" THEN Head(ws).total ELSE 0) + SumTotals(Tail(ws))

\* the results collected as soon as one work item has finished
Collect_FirstResult(c) ==
    /\ pc[c] = "embed"
    /\ \E i \in 1..Len(workers[c]) : Finished(workers[c][i])
    /\ failures' = [failures EXCEPT ![c] = CountFailed(workers[c])]
    /\ total_chunks' = [total_chunks EXCEPT ![c] = SumTotals(workers[c])]
    /\ warned' = [warned EXCEPT ![c] =
           IF CountFailed(workers[c]) # 0
           THEN <<[failures |-> CountFailed(workers[c]), of |-> Len(workers[c])]>>
           ELSE << >>]
    /\ pc' = [pc EXCEPT ![c] = "finalize"]
    /\ UNCHANGED <<n_batches, durable, lock, force, reload_fn, files, workers,
                   reloaded, result, runId, runs, edits, history>>

\* _embed: the loop over worker_results, and the warning
Collect(c) ==
    /\ pc[c] = "embed"
    /\ \A i \in 1..Len(workers[c]) : Finished(workers[c][i])
    /\ failures' = [failures EXCEPT ![c] = CountFailed(workers[c])]
    /\ total_chunks' = [total_chunks EXCEPT ![c] = SumTotals(workers[c])]
    /\ warned' = [warned EXCEPT ![c] =
           IF CountFailed(workers[c]) # 0
           THEN <<[failures |-> CountFailed(workers[c]), of |-> Len(workers[c])]>>
           ELSE << >>]
    /\ pc' = [pc EXCEPT ![c] = "finalize"]
    /\ UNCHANGED <<n_batches, durable, lock, force, reload_fn, files, workers,
                   reloaded, result, runId, runs, edits, history>>

\* finalize_index without the wf.unlink() of the merge loop
Finalize_KeepsFragments(c) ==
    /\ pc[c] = "finalize"
    /\ IF FinalizeRaises(force[c])
       THEN /\ result' = [result EXCEPT ![c] = FinalizeRaised]
            /\ pc' = [pc EXCEPT ![c] = "return"]
            /\ UNCHANGED <<collection, fragments, manifest, fragSrc>>
       ELSE /\ collection' = FinalCollection(force[c])
            /\ fragments' = fragments
            /\ manifest' = [exists |-> TRUE, ok |-> TRUE, map |-> FinalMap(force[c])]
            /\ result' = [result EXCEPT ![c] =
                   DoneResult(Cardinality(FinalCollection(force[c])),
                              Cardinality(DOMAIN FinalMap(force[c])))]
            /\ pc' = [pc EXCEPT ![c] = IF reload_fn[c] THEN "reload" ELSE "return"]
            /\ fragSrc' = EmptyMap
    /\ UNCHANGED <<n_batches, docsDir, docs, lock, force, reload_fn, files, workers,
                   failures, total_chunks, warned, reloaded, runId, runs, edits,
                   scanSnap, lastRet, prevRet, lastCrash>>

\* result = finalize_index.remote(force)
Finalize(c) ==
    /\ pc[c] = "finalize"
    /\ IF FinalizeRaises(force[c])
       THEN /\ result' = [result EXCEPT ![c] = FinalizeRaised]
            /\ pc' = [pc EXCEPT ![c] = "return"]
            /\ UNCHANGED <<collection, fragments, manifest, fragSrc>>
       ELSE /\ collection' = FinalCollection(force[c])
            /\ fragments' = EmptyMap
            /\ manifest' = [exists |-> TRUE, ok |-> TRUE, map |-> FinalMap(force[c])]
            /\ result' = [result EXCEPT ![c] =
                   DoneResult(Cardinality(FinalCollection(force[c])),
                              Cardinality(DOMAIN FinalMap(force[c])))]
            /\ pc' = [pc EXCEPT ![c] = IF reload_fn[c] THEN "reload" ELSE "return"]
            /\ fragSrc' = EmptyMap
    /\ UNCHANGED <<n_batches, docsDir, docs, lock, force, reload_fn, files, workers,
                   failures, total_chunks, warned, reloaded, runId, runs, edits,
                   scanSnap, lastRet, prevRet, lastCrash>>

\* reload_fn invoked as soon as the workers are collected, before finalize
Reload_Early(c, ok) ==
    /\ pc[c] \in {"finalize", "reload"}
    /\ ~reloaded[c]
    /\ reloaded' = [reloaded EXCEPT ![c] = TRUE]
    /\ result' = [result EXCEPT ![c] = IF ok THEN @ ELSE Raised]
    /\ pc' = [pc EXCEPT ![c] = IF pc[c] = "reload" \/ ~ok THEN "return" ELSE "finalize"]
    /\ UNCHANGED <<n_batches, durable, lock, force, reload_fn, files, workers,
                   failures, total_chunks, warned, runId, runs, edits, history>>

\* if reload_fn: reload_fn(), which returns or raises
Reload(c, ok) ==
    /\ pc[c] = "reload"
    /\ reloaded' = [reloaded EXCEPT ![c] = TRUE]
    /\ result' = [result EXCEPT ![c] = IF ok THEN @ ELSE Raised]
    /\ pc' = [pc EXCEPT ![c] = "return"]
    /\ UNCHANGED <<n_batches, durable, lock, force, reload_fn, files, workers,
                   failures, total_chunks, warned, runId, runs, edits, history>>

\* the frame of reindex is gone once it has returned
ClearLocals(c) ==
    /\ force' = [force EXCEPT ![c] = FALSE]
    /\ reload_fn' = [reload_fn EXCEPT ![c] = FALSE]
    /\ files' = [files EXCEPT ![c] = << >>]
    /\ workers' = [workers EXCEPT ![c] = << >>]
    /\ failures' = [failures EXCEPT ![c] = 0]
    /\ total_chunks' = [total_chunks EXCEPT ![c] = 0]
    /\ warned' = [warned EXCEPT ![c] = << >>]
    /\ reloaded' = [reloaded EXCEPT ![c] = FALSE]
    /\ result' = [result EXCEPT ![c] = NoResult]
    /\ runId' = [runId EXCEPT ![c] = 0]
    /\ scanSnap' = [scanSnap EXCEPT ![c] = << >>]

ClearAllLocals ==
    /\ force' = [c \in Callers |-> FALSE]
    /\ reload_fn' = [c \in Callers |-> FALSE]
    /\ files' = [c \in Callers |-> << >>]
    /\ workers' = [c \in Callers |-> << >>]
    /\ failures' = [c \in Callers |-> 0]
    /\ total_chunks' = [c \in Callers |-> 0]
    /\ warned' = [c \in Callers |-> << >>]
    /\ reloaded' = [c \in Callers |-> FALSE]
    /\ result' = [c \in Callers |-> NoResult]
    /\ runId' = [c \in Callers |-> 0]
    /\ scanSnap' = [c \in Callers |-> << >>]

\* what the histories record of a run
RunRecord(c) ==
    [run |-> runId[c], force |-> force[c], files |-> files[c],
     items |-> [j \in 1..Len(workers[c]) |-> workers[c][j].work],
     outcome |-> [j \in 1..Len(workers[c]) |-> workers[c][j].st],
     failures |-> failures[c], total_chunks |-> total_chunks[c],
     warned |-> warned[c], reloaded |-> reloaded[c], result |-> result[c],
     atScan |-> scanSnap[c], atEnd |-> Snapshot]

\* Return that releases self._lock on the normal paths only, as an acquire
\* and release around the body without try/finally would
Return_NoReleaseOnRaise(c) ==
    /\ pc[c] = "return"
    /\ lock' = IF lock = c /\ result[c].kind # "raised" THEN NoOne ELSE lock
    /\ pc' = [pc EXCEPT ![c] = "idle"]
    /\ lastRet' = <<RunRecord(c)>>
    /\ ClearLocals(c)
    /\ UNCHANGED <<n_batches, durable, runs, edits, prevRet, lastCrash, fragSrc>>

\* Return that does not release self._lock
Return_KeepsLock(c) ==
    /\ pc[c] = "return"
    /\ lock' = lock
    /\ pc' = [pc EXCEPT ![c] = "idle"]
    /\ lastRet' = <<RunRecord(c)>>
    /\ ClearLocals(c)
    /\ UNCHANGED <<n_batches, durable, runs, edits, prevRet, lastCrash, fragSrc>>

\* reindex returns or raises, leaving the with block
Return(c) ==
    /\ pc[c] = "return"
    /\ lock' = IF lock = c THEN NoOne ELSE lock
    /\ pc' = [pc EXCEPT ![c] = "idle"]
    /\ lastRet' = <<RunRecord(c)>>
    /\ ClearLocals(c)
    /\ UNCHANGED <<n_batches, durable, runs, edits, prevRet, lastCrash, fragSrc>>

\* the coordinating process dies after the scan and before finalize starts
Crash(c) ==
    /\ pc[c] \in {"build", "embed", "finalize"}
    /\ lock' = NoOne
    /\ pc' = [d \in Callers |-> "idle"]
    /\ lastCrash' = <<RunRecord(c)>>
    /\ lastRet' = << >>
    /\ prevRet' = << >>
    /\ ClearAllLocals
    /\ UNCHANGED <<n_batches, durable, runs, edits, fragSrc>>

Next ==
    \/ \E name \in UploadNames, v \in Versions :
         ~IsZip(name) /\ Upload(name, v[1], v[2], NoEntries)
    \/ \E name \in UploadNames, v \in ZipVersions :
         IsZip(name) /\ Upload(name, v[1], v[2], v[3])
    \/ \E name \in Names : RemoveSource(name)
    \/ \E c \in RunCallers : Call(c)
    \/ \E c \in RunCallers, frc \in BOOLEAN : Acquire(c, frc, c \in PassesReload)
    \/ \E c \in RunCallers : Scan(c)
    \/ \E c \in RunCallers : BuildBatches(c)
    \/ \E c \in RunCallers, i \in 1..4 : WorkerParseFlush(c, i)
    \/ \E c \in RunCallers, i \in 1..4 : WorkerWriteManifest(c, i)
    \/ \E c \in RunCallers, i \in 1..4 : WorkerFail(c, i)
    \/ \E c \in RunCallers : Collect(c)
    \/ \E c \in RunCallers : Finalize(c)
    \/ \E c \in RunCallers, ok \in BOOLEAN : Reload(c, ok)
    \/ \E c \in RunCallers : Return(c)
    \/ \E c \in RunCallers : Crash(c)

Spec == Init /\ [][Next]_vars

\* the runs up to the fan-out, over the directories of BuildDocs
NextBuild ==
    \/ \E c \in RunCallers : Call(c)
    \/ \E c \in RunCallers, frc \in BOOLEAN : Acquire(c, frc, c \in PassesReload)
    \/ \E c \in RunCallers : Scan(c)
    \/ \E c \in RunCallers : BuildBatches(c)

SpecBuild == InitBuild /\ [][NextBuild]_vars

\* one run over the volume with leftover fragments
NextMerge ==
    \/ \E c \in RunCallers : CallUpTo(c, MaxMergeRuns)
    \/ \E c \in RunCallers, frc \in BOOLEAN : Acquire(c, frc, c \in PassesReload)
    \/ \E c \in RunCallers : Scan(c)
    \/ \E c \in RunCallers : BuildBatches(c)
    \/ \E c \in RunCallers, i \in 1..4 : WorkerParseFlush(c, i)
    \/ \E c \in RunCallers, i \in 1..4 : WorkerWriteManifest(c, i)
    \/ \E c \in RunCallers, i \in 1..4 : WorkerFail(c, i)
    \/ \E c \in RunCallers : Collect(c)
    \/ \E c \in RunCallers : Finalize(c)
    \/ \E c \in RunCallers, ok \in BOOLEAN : Reload(c, ok)
    \/ \E c \in RunCallers : Return(c)

SpecMerge == InitMerge /\ [][NextMerge]_vars

\* one run whose workers meet the uploads and removals of the Slack handlers;
\* no worker fails for another reason
NextRace ==
    \/ \E name \in UploadNames, v \in Versions :
         ~IsZip(name) /\ Upload(name, v[1], v[2], NoEntries)
    \/ \E name \in UploadNames, v \in ZipVersions :
         IsZip(name) /\ Upload(name, v[1], v[2], v[3])
    \/ \E name \in Names : RemoveSource(name)
    \/ \E c \in RunCallers : CallUpTo(c, MaxRaceRuns)
    \/ \E c \in RunCallers, frc \in BOOLEAN : Acquire(c, frc, c \in PassesReload)
    \/ \E c \in RunCallers : Scan(c)
    \/ \E c \in RunCallers : BuildBatches(c)
    \/ \E c \in RunCallers, i \in 1..4 : WorkerParseFlush(c, i)
    \/ \E c \in RunCallers, i \in 1..4 : WorkerWriteManifest(c, i)
    \/ \E c \in RunCallers : Collect(c)
    \/ \E c \in RunCallers : Finalize(c)
    \/ \E c \in RunCallers, ok \in BOOLEAN : Reload(c, ok)
    \/ \E c \in RunCallers : Return(c)

SpecRace == InitRace /\ [][NextRace]_vars

\* one run over an archive, up to the workers' parse and flush
NextZip ==
    \/ \E c \in RunCallers : CallUpTo(c, MaxZipRuns)
    \/ \E c \in RunCallers, frc \in BOOLEAN : Acquire(c, frc, c \in PassesReload)
    \/ \E c \in RunCallers : Scan(c)
    \/ \E c \in RunCallers : BuildBatches(c)
    \/ \E c \in RunCallers, i \in 1..4 : WorkerParseFlush(c, i)

SpecZip == InitZip /\ [][NextZip]_vars

\* one run whose work items are flushed concurrently by one worker process
NextStore ==
    \/ \E c \in RunCallers : CallUpTo(c, MaxStoreRuns)
    \/ \E c \in RunCallers, frc \in BOOLEAN : Acquire(c, frc, c \in PassesReload)
    \/ \E c \in RunCallers : Scan(c)
    \/ \E c \in RunCallers : BuildBatches(c)
    \/ \E c \in RunCallers, i \in 1..4 : WorkerParse(c, i)
    \/ \E c \in RunCallers, i \in 1..4 : FlushBegin(c, i)
    \/ \E c \in RunCallers, i \in 1..4 : FlushUpsert(c, i)
    \/ \E c \in RunCallers, i \in 1..4 : FlushEnd(c, i)
    \/ \E c \in RunCallers, i \in 1..4 : WorkerWriteManifest(c, i)

SpecStore == InitStore /\ [][NextStore]_vars

\* one run whose workers are taken step by step and fail: a path removed
\* before the parse, the embedding backend, a crash after the flush
NextItem ==
    \/ \E name \in Names : RemoveSource(name)
    \/ \E c \in RunCallers : CallUpTo(c, MaxItemRuns)
    \/ \E c \in RunCallers, frc \in BOOLEAN : Acquire(c, frc, c \in PassesReload)
    \/ \E c \in RunCallers : Scan(c)
    \/ \E c \in RunCallers : BuildBatches(c)
    \/ \E c \in RunCallers, i \in 1..4 : WorkerParse(c, i)
    \/ \E c \in RunCallers, i \in 1..4 : FlushBegin(c, i)
    \/ \E c \in RunCallers, i \in 1..4 : FlushUpsert(c, i)
    \/ \E c \in RunCallers, i \in 1..4 : FlushEnd(c, i)
    \/ \E c \in RunCallers, i \in 1..4 : WorkerWriteManifest(c, i)
    \/ \E c \in RunCallers, i \in 1..4 : WorkerFail(c, i)

SpecItem == InitStore /\ [][NextItem]_vars

\* three threads that call reindex again and again; no worker fails
InitLive ==
    /\ n_batches \in 1..MaxN
    /\ docs \in InitialDocs
    /\ manifest = [exists |-> FALSE, ok |-> TRUE, map |-> EmptyMap]
    /\ fragments = EmptyMap
    /\ InitIdle

\* the steps of the run of the thread that holds the lock
RunStep(c) ==
    \/ Scan(c)
    \/ BuildBatches(c)
    \/ \E i \in 1..4 : WorkerParseFlush(c, i)
    \/ \E i \in 1..4 : WorkerWriteManifest(c, i)
    \/ Collect(c)
    \/ Finalize(c)
    \/ \E ok \in BOOLEAN : Reload(c, ok)
    \/ Return(c)

Enter(c) == \E frc \in BOOLEAN : Acquire(c, frc, c \in PassesReload)

NextLive ==
    \/ \E c \in Callers : CallAgain(c)
    \/ \E c \in Callers : Enter(c)
    \/ \E c \in Callers : RunStep(c)

\* every run goes on until it returns, and a thread that waits for the lock
\* while it is released again and again gets it
FairLive ==
    /\ \A c \in Callers : WF_vars(RunStep(c))
    /\ \A c \in Callers : SF_vars(Enter(c))

SpecLive == InitLive /\ [][NextLive]_vars /\ FairLive

\* volumes on which a run leaves reindex by each of its exits: an empty or
\* missing directory, a file to index, an archive that is no archive, and a
\* manifest.json that is absent or unparseable
ExitDocs ==
    {[x \in {} |-> << >>],
     [x \in {"a.txt"} |-> [mtime |-> 1, size |-> 11, entries |-> NoEntries]],
     [x \in {"z.zip"} |-> [mtime |-> 1, size |-> 1, entries |-> Malformed]]}

InitExit ==
    /\ n_batches = 1
    /\ docs \in ExitDocs
    /\ manifest \in InitialManifests
    /\ fragments = EmptyMap
    /\ InitIdle

NextExit ==
    \/ \E c \in RunCallers : CallAgain(c)
    \/ \E c \in RunCallers : Enter(c)
    \/ \E c \in RunCallers : RunStep(c)
    \/ \E c \in RunCallers : ScanFail(c)

FairExit ==
    /\ \A c \in RunCallers : WF_vars(RunStep(c))
    /\ \A c \in RunCallers : SF_vars(Enter(c))

SpecExit == InitExit /\ [][NextExit]_vars /\ FairExit

\* ------------------------------------------------------------------ claims
\* the fingerprint strings "mtime_ns:size" of the versions, written out
ExpectedFp(rec) ==
    CASE <<rec.mtime, rec.size>> = <<1, 11>> -> "1:11"
      [] <<rec.mtime, rec.size>> = <<11, 1>> -> "11:1"
      [] <<rec.mtime, rec.size>> = <<11, 11>> -> "11:11"
      [] <<rec.mtime, rec.size>> = <<1, 1>> -> "1:1"

\* the manifest that records exactly the files of a docs directory
ManifestOfDocs(d) == [p \in DOMAIN d |-> ExpectedFp(d[p])]

\* no upload or removal happened between the run's scan and its return
QuietRun(r) == r.atScan # << >> /\ r.atScan[1].edits = r.atEnd.edits

\* the manifest a run ended with records p with p's fingerprint at that time
RecordedCurrent(r, p) ==
    /\ p \in DOMAIN r.atEnd.docs
    /\ r.atEnd.manifest.exists
    /\ p \in DOMAIN r.atEnd.manifest.map
    /\ r.atEnd.manifest.map[p] = ExpectedFp(r.atEnd.docs[p])

\* every work item of the run succeeded, and there was one
AllSucceeded(r) ==
    Len(r.items) > 0 /\ \A j \in 1..Len(r.items) : r.outcome[j] = "done"

\* every file of the docs directory was covered by a work item of the run
AllCovered(r) ==
    \A p \in DOMAIN r.atEnd.docs : \E j \in 1..Len(r.items) : p \in ItemNames(r.items[j])

\* C1: after reindex(force=true) has returned its summary with every worker
\* successful (and no upload or removal during the run), the canonical manifest
\* maps exactly the files of the docs directory to their current fingerprints,
\* the collection holds exactly chunks embedded in this run, one source per
\* indexed file, no fragment is left and no chunk of the previous state survives.
C1_ForcedRebuild ==
    \A i \in 1..Len(lastRet) :
        LET r == lastRet[i]
        IN (/\ r.force /\ r.result.kind = "done" /\ QuietRun(r)
            /\ AllSucceeded(r) /\ AllCovered(r)) =>
              /\ r.atEnd.manifest.exists
              /\ r.atEnd.manifest.map = ManifestOfDocs(r.atEnd.docs)
              /\ \A ch \in r.atEnd.collection : ch.id[1] = r.run
              /\ \A ch \in r.atScan[1].collection : ch \notin r.atEnd.collection
              /\ r.atEnd.fragments = EmptyMap

\* C2: when reindex(force=false) runs twice in a row, the first run without a
\* failed item, and no file is added, changed or removed from the first scan to
\* the second return, the second scan selects no file and the manifest and the
\* chunk count after the second run equal those after the first.
C2_Idempotence ==
    \A i \in 1..Len(lastRet), j \in 1..Len(prevRet) :
        LET r2 == lastRet[i]
            r1 == prevRet[j]
        IN (/\ ~r1.force /\ ~r2.force
            /\ r1.kind \in {"done", "empty"} /\ r1.failures = 0
            /\ r2.result.kind \in {"done", "empty"}
            /\ r1.editsAtScan = r2.atEnd.edits) =>
              /\ r2.files = << >>
              /\ r2.atEnd.manifest = r1.manifest
              /\ Cardinality(r2.atEnd.collection) = r1.count

\* C3: in a run with k work items of which exactly one raises, the run reaches
\* finalize and returns its summary, the manifest then records the current
\* fingerprint of every file covered by the k-1 successful items, and the run
\* reports that 1 of k workers failed.
C3_PartialFailureIsolation ==
    \A i \in 1..Len(lastRet) :
        LET r == lastRet[i]
            k == Len(r.items)
        IN (/\ Cardinality({j \in 1..k : r.outcome[j] = "failed"}) = 1
            /\ r.result.kind # "raised" /\ QuietRun(r)) =>
              /\ r.result.kind = "done"
              /\ \A j \in 1..k : r.outcome[j] = "done" =>
                    \A p \in ItemNames(r.items[j]) : RecordedCurrent(r, p)
              /\ r.warned = <<[failures |-> 1, of |-> k]>>

\* C4: for every work item that failed in a run, none of the files it covers
\* (for a slice: its archive) is recorded with its current fingerprint in a
\* fragment or in the canonical manifest after that run's finalize, so the
\* next scan(force=false) selects it again, also when a sibling slice succeeded.
C4_FailedItemsReselected ==
    \A i \in 1..Len(lastRet) :
        LET r == lastRet[i]
        IN (r.result.kind = "done" /\ QuietRun(r)) =>
              \A j \in 1..Len(r.items) : r.outcome[j] = "failed" =>
                 \A p \in ItemNames(r.items[j]) :
                    /\ ~RecordedCurrent(r, p)
                    /\ \A w \in DOMAIN r.atEnd.fragments : p \notin DOMAIN r.atEnd.fragments[w]

\* C5: in every reachable state, a fragment file that records file X exists
\* only if every chunk its writing work item derived from X is in the
\* collection (the upserts of the item precede its fragment write).
C5_FragmentAfterUpserts ==
    \A w \in DOMAIN fragments :
        /\ w \in DOMAIN fragSrc
        /\ \A x \in DOMAIN fragments[w] :
              {ch \in fragSrc[w] : ch.source = x} \subseteq collection

\* a fragment exists whose item derived chunks
C5_Witness ==
    \E w \in DOMAIN fragments : \E ch \in fragSrc[w] : ch.source \in DOMAIN fragments[w]

\* C6: after a file was removed from the docs directory and a following
\* reindex(force=false) has returned, the canonical manifest no longer holds
\* its name and the collection holds no chunk whose source it is.
C6_RemovedFileLeavesIndex ==
    \A i \in 1..Len(lastRet) :
        LET r == lastRet[i]
            before == r.atScan[1]
        IN (~r.force /\ r.result.kind \in {"done", "empty"} /\ r.failures = 0 /\ QuietRun(r)) =>
              \A x \in Names :
                 (x \notin DOMAIN before.docs /\ x \in DOMAIN before.manifest.map) =>
                    /\ x \notin DOMAIN r.atEnd.manifest.map
                    /\ \A ch \in r.atEnd.collection : ch.source # x

\* C7: scan(force) returns, sorted by name, exactly the files of the docs
\* directory for which force is true or the manifest has no value or another
\* value than the file's current "mtime_ns:size"; it returns the empty list when
\* the docs directory does not exist.
C7_ScanSelection ==
    \A c \in Callers : \A k \in 1..Len(scanSnap[c]) :
        LET at == scanSnap[c][k]
            sel == files[c]
            known == IF at.manifest.exists /\ at.manifest.ok THEN at.manifest.map ELSE EmptyMap
        IN /\ \A i, j \in 1..Len(sel) : i < j => NameLess(sel[i], sel[j])
           /\ Range(sel) = {p \in DOMAIN at.docs :
                               \/ force[c]
                               \/ p \notin DOMAIN known
                               \/ known[p] # ExpectedFp(at.docs[p])}
           /\ ~at.docsDir => sel = << >>

\* a scan without force that selected a file and passed over a recorded one
C7_Witness ==
    \E c \in Callers : \E k \in 1..Len(scanSnap[c]) :
        /\ ~force[c]
        /\ files[c] # << >>
        /\ \E p \in DOMAIN scanSnap[c][k].docs : p \notin Range(files[c])

\* the scan left the manifest, the fragments and the collection as they were,
\* and the manifest stays so until finalize starts
ScanReadOnly ==
    \A c \in Callers : \A k \in 1..Len(scanSnap[c]) :
        /\ pc[c] = "build" =>
              /\ manifest = scanSnap[c][k].manifest
              /\ fragments = scanSnap[c][k].fragments
              /\ collection = scanSnap[c][k].collection
        /\ pc[c] \in {"build", "embed", "finalize"} => manifest = scanSnap[c][k].manifest

\* C8 as stated: the scan changes neither manifest, fragments nor collection,
\* and after a crash between scan and finalize the manifest is as before the
\* run and, given no docs change, scan(force=false) selects at least the files
\* the crashed run had selected.
C8_CrashReselects ==
    /\ ScanReadOnly
    /\ \A k \in 1..Len(lastCrash) :
          LET r == lastCrash[k]
          IN /\ manifest = r.atScan[1].manifest
             /\ edits = r.atScan[1].edits => Range(r.files) \subseteq Range(ScanFiles(FALSE))

\* C8 amended: ... given no docs change, a scan with the crashed run's force
\* flag selects exactly the files the crashed run had selected.
C8_CrashReselectsSameFlag ==
    /\ ScanReadOnly
    /\ \A k \in 1..Len(lastCrash) :
          LET r == lastCrash[k]
          IN /\ manifest = r.atScan[1].manifest
             /\ edits = r.atScan[1].edits => ScanFiles(r.force) = r.files

\* a run has crashed after one of its workers wrote its fragment, over a
\* manifest an earlier run had written
C8_Witness ==
    \E k \in 1..Len(lastCrash) :
        /\ lastCrash[k].atEnd.fragments # lastCrash[k].atScan[1].fragments
        /\ lastCrash[k].files # << >>
        /\ manifest.exists
        /\ edits = lastCrash[k].atScan[1].edits

\* C9: only the finalize step writes or deletes manifest.json.
C9_OnlyFinalizeWritesManifest ==
    [][manifest' # manifest =>
          \E c \in Callers : pc[c] = "finalize" /\ pc'[c] \in {"reload", "return"}]_vars

\* a worker has written its fragment while a manifest of an earlier run exists
C9_Witness ==
    /\ manifest.exists /\ DOMAIN manifest.map # {}
    /\ \E c \in Callers : pc[c] = "embed" /\ \E i \in 1..Len(workers[c]) : workers[c][i].st = "done"

InRun == {"scan", "build", "embed", "finalize", "reload", "return"}

\* C10: at most one caller is between its scan and its return, and it holds
\* the lock; every other caller has taken no step of its run.
C10_MutualExclusion ==
    /\ Cardinality({c \in Callers : pc[c] \in InRun}) <= 1
    /\ \A c \in Callers : pc[c] \in InRun => lock = c
    /\ \A c \in Callers : pc[c] \notin InRun =>
          /\ scanSnap[c] = << >> /\ workers[c] = << >>
          /\ result[c] = NoResult /\ ~reloaded[c]

\* one caller waits for the lock while the other is embedding
C10_Witness ==
    \E c, d \in Callers :
        /\ pc[c] = "wait"
        /\ pc[d] = "embed"
        /\ \E i \in 1..Len(workers[d]) : workers[d][i].st = "flushed"

\* C11: the reload callback is invoked at most once per run, only when one was
\* supplied and only after finalize has returned its summary (manifest.json
\* written, no fragment left); it is not invoked before finalize, when finalize
\* raises, or on the empty-scan exit.
C11_ReloadAfterFinalize ==
    /\ [](\A c \in Callers : reloaded[c] =>
             /\ pc[c] = "return"
             /\ reload_fn[c]
             /\ result[c] # FinalizeRaised
             /\ result[c].kind # "empty")
    /\ [][\A c \in Callers : (reloaded'[c] /\ ~reloaded[c]) =>
             /\ pc[c] = "reload"
             /\ result[c].kind = "done"
             /\ manifest.exists /\ manifest.ok
             /\ fragments = EmptyMap]_vars

\* a run has returned its summary after invoking the reload callback
C11_Witness ==
    \E i \in 1..Len(lastRet) :
        /\ lastRet[i].reloaded
        /\ lastRet[i].result.kind = "done"
        /\ lastRet[i].result.files > 0

Collected == {c \in Callers : pc[c] \in {"finalize", "reload", "return"} /\ workers[c] # << >>}

\* C13: whatever subset of the work items raises, the orchestrator consumes the
\* result of every item; its failure count is the number of items that raised,
\* its chunk total is the sum of the chunk counts of the items that succeeded,
\* and a warning naming the failure count is sent iff that count is not zero.
C13_FanOutCollection ==
    \A c \in Collected :
        LET ws == workers[c]
            raised == {i \in 1..Len(ws) : ws[i].st = "failed"}
            succeeded == {i \in 1..Len(ws) : ws[i].st = "done"}
        IN /\ raised \cup succeeded = 1..Len(ws)
           /\ failures[c] = Cardinality(raised)
           /\ total_chunks[c] = Cardinality(UNION {ws[i].pending : i \in succeeded})
           /\ (warned[c] # << >>) <=> (failures[c] # 0)
           /\ \A k \in 1..Len(warned[c]) :
                 warned[c][k].failures = failures[c] /\ warned[c][k].of = Len(ws)

\* two items raised and another returned its chunks
C13_Witness ==
    \E c \in Collected :
        /\ failures[c] = 2
        /\ total_chunks[c] > 0

\* C14: when the scan returns no files, reindex returns the empty-result
\* message and makes no embed, finalize or reload call; the collection, the
\* canonical manifest and the fragments are as they were at the scan.
C14_EmptyExit ==
    \A i \in 1..Len(lastRet) :
        LET r == lastRet[i]
        IN (r.atScan # << >> /\ r.files = << >>) =>
              /\ r.result.kind = "empty"
              /\ r.result.msg \in {"no_documents", "already_indexed"}
              /\ r.result.msg = "already_indexed" <=>
                    \E p \in DOMAIN r.atScan[1].docs :
                        /\ r.atScan[1].manifest.ok
                        /\ p \in DOMAIN r.atScan[1].manifest.map
              /\ r.items = << >>
              /\ ~r.reloaded
              /\ r.atEnd.collection = r.atScan[1].collection
              /\ r.atEnd.manifest = r.atScan[1].manifest
              /\ r.atEnd.fragments = r.atScan[1].fragments

\* a run over an indexed, unchanged directory has returned "already indexed"
C14_Witness ==
    \E i \in 1..Len(lastRet) :
        /\ lastRet[i].files = << >>
        /\ lastRet[i].result.msg = "already_indexed"
        /\ lastRet[i].atEnd.collection # {}

\* the callers whose batches have been built and fanned out
Built == {c \in Callers : pc[c] = "embed"}
ItemsOf(c) == [j \in 1..Len(workers[c]) |-> workers[c][j].work]

\* ceil(len / n), as the least s with s * n >= len
CeilDiv(len, n) == CHOOSE s \in 0..len : s * n >= len /\ (s = 0 \/ (s - 1) * n < len)
\* the number of slices of size ceil(len / n) that cover len items
SliceCount(len, n) == IF len = 0 THEN 0 ELSE CeilDiv(len, CeilDiv(len, n))

RECURSIVE Concat(_)
Concat(ss) == IF ss = << >> THEN << >> ELSE Head(ss) \o Concat(Tail(ss))

\* slices are non-empty, at most n, of size ceil(len/n) except a shorter last
\* one, and concatenated in order give the input
SlicesOf(slices, input, n) ==
    /\ Len(slices) <= n
    /\ \A j \in 1..Len(slices) :
          /\ slices[j] # << >>
          /\ Len(slices[j]) <= CeilDiv(Len(input), n)
          /\ j < Len(slices) => Len(slices[j]) = CeilDiv(Len(input), n)
    /\ Concat(slices) = input

PlainOf(c) == SelectSeq(files[c], LAMBDA f : ~IsZip(f))
FilesSlices(c) ==
    LET its == SelectSeq(ItemsOf(c), LAMBDA w : w.type = "files")
    IN [j \in 1..Len(its) |-> its[j].paths]
NonDirEntries(z) == SelectSeq(docs[z].entries, LAMBDA e : e # "d/")
ZipSlices(c, z) ==
    LET its == SelectSeq(ItemsOf(c), LAMBDA w : w.type = "zip_entries" /\ w.zip_path = z)
    IN [j \in 1..Len(its) |-> its[j].entries]

\* C15: for every list of plain files and every N >= 1, build produces Files
\* items that are contiguous slices of size ceil(len/N) (the last possibly
\* shorter), at most N of them, none empty, whose concatenation in order is the
\* input list, so that each plain file is in exactly one work item.
C15_PlainFileBatching ==
    \A c \in Built :
        /\ SlicesOf(FilesSlices(c), PlainOf(c), n_batches)
        /\ \A p \in Range(PlainOf(c)) :
              Cardinality({j \in 1..Len(workers[c]) :
                              p \in Range(workers[c][j].work.paths)}) = 1

\* five plain files with N = 3 or N = 4: three slices, of 2, 2 and 1 files
C15_Witness ==
    \E c \in Built :
        /\ Len(PlainOf(c)) = 5
        /\ n_batches \in {3, 4}
        /\ Len(FilesSlices(c)) = 3
        /\ Len(FilesSlices(c)[3]) = 1

\* C16: the non-directory entry names of each selected archive are split,
\* independently of other archives, into contiguous ceil(entries/N)-sized
\* slices: at most N non-empty ZipEntries items per archive, every entry name
\* in exactly one item; the items of a run may be more than N and each of them
\* is dispatched to a worker.
C16_ArchiveBatching ==
    \A c \in Built :
        /\ \A z \in {f \in Range(files[c]) : IsZip(f)} :
              /\ SlicesOf(ZipSlices(c, z), NonDirEntries(z), n_batches)
              /\ \A e \in Range(NonDirEntries(z)) :
                    Cardinality({j \in 1..Len(workers[c]) :
                                    /\ workers[c][j].work.zip_path = z
                                    /\ e \in Range(workers[c][j].work.entries)}) = 1
        /\ Len(workers[c]) =
              SliceCount(Len(PlainOf(c)), n_batches)
              + SliceCount(IF "y.zip" \in Range(files[c])
                           THEN Len(NonDirEntries("y.zip")) ELSE 0, n_batches)
              + SliceCount(IF "z.zip" \in Range(files[c])
                           THEN Len(NonDirEntries("z.zip")) ELSE 0, n_batches)
        /\ \A j \in 1..Len(workers[c]) : workers[c][j].st = "queued"

\* two archives and plain files give more than N work items
C16_Witness ==
    \E c \in Built :
        /\ {"y.zip", "z.zip"} \subseteq Range(files[c])
        /\ Len(ZipSlices(c, "y.zip")) = n_batches
        /\ Len(ZipSlices(c, "z.zip")) < n_batches
        /\ Len(ZipSlices(c, "z.zip")) > 0
        /\ Len(workers[c]) > n_batches

C18_CorruptManifestAsEmpty ==
    \A i \in 1..Len(lastRet) :
        LET r == lastRet[i]
        IN (/\ r.atScan # << >>
            /\ ~(r.atScan[1].manifest.exists /\ r.atScan[1].manifest.ok)
            /\ r.items # << >>
            /\ ~r.reloaded) =>
              /\ Range(r.files) = DOMAIN r.atScan[1].docs
              /\ r.result.kind = "done"
              /\ r.atEnd.manifest.exists /\ r.atEnd.manifest.ok
              /\ DOMAIN r.atEnd.manifest.map \subseteq
                    UNION {ItemNames(r.items[j]) : j \in 1..Len(r.items)}

\* C19: chunk ids are a function of source and offset, so embedding the same
\* unchanged source again upserts the same ids: the collection never holds two
\* chunks of the same source, entry and content under different ids.
C19_StableChunkIds ==
    \A ch1, ch2 \in collection :
        (/\ ch1.source = ch2.source
         /\ ch1.filename = ch2.filename
         /\ ch1.text = ch2.text) => ch1.id = ch2.id

\* a first run over exactly one plain file and one archive that has file entries
FirstRunOverTwo(r) ==
    /\ ~r.atScan[1].manifest.exists
    /\ r.atScan[1].collection = {}
    /\ Cardinality(DOMAIN r.atScan[1].docs) = 2
    /\ \E p, z \in DOMAIN r.atScan[1].docs :
          /\ ~IsZip(p) /\ IsZip(z)
          /\ \E e \in Range(r.atScan[1].docs[z].entries) : ~IsDirEntry(e)

\* C20: the summary finalize returns states the number of chunks in the
\* collection when finalize runs and the number of filenames in the manifest
\* it has just written; for a first run over one plain file and one archive
\* in which all items succeed it reports 2 files.
C20_SummaryCounts ==
    \A i \in 1..Len(lastRet) :
        LET r == lastRet[i]
        IN r.result.kind = "done" =>
              /\ r.result.chunks = Cardinality(r.atEnd.collection)
              /\ r.result.files = Cardinality(DOMAIN r.atEnd.manifest.map)
              /\ (FirstRunOverTwo(r) /\ QuietRun(r) /\ r.failures = 0) => r.result.files = 2

\* the stage changes of a run: Scanning -> (EmptyExit | Embedding) ->
\* Finalizing -> Reloading? -> Done; a stage is left early only by an exception
StageStep(c) ==
    \/ pc[c] = "wait" /\ pc'[c] = "scan"
    \/ pc[c] = "scan" /\ pc'[c] = "return" /\ files'[c] = << >> /\ result'[c].kind = "empty"
    \/ pc[c] = "scan" /\ pc'[c] = "build" /\ files'[c] # << >>
    \/ pc[c] = "build" /\ pc'[c] = "embed"
    \/ pc[c] = "embed" /\ pc'[c] = "finalize"
    \/ pc[c] = "finalize" /\ pc'[c] = "reload" /\ reload_fn[c] /\ result'[c].kind = "done"
    \/ pc[c] = "finalize" /\ pc'[c] = "return" /\ ~reload_fn[c] /\ result'[c].kind = "done"
    \/ pc[c] \in {"build", "finalize"} /\ pc'[c] = "return" /\ result'[c].kind = "raised"
    \/ pc[c] = "reload" /\ pc'[c] = "return"
    \/ pc'[c] = "idle"
    \/ pc[c] = "idle" /\ pc'[c] = "wait"

\* C21: every run goes Scanning -> (EmptyExit | Embedding) -> Finalizing ->
\* Reloading? -> Done with no stage skipped or reordered, and finalize starts
\* only after the outcome of every work item of the run has been collected:
\* from then on no worker of the run upserts or writes a fragment.
C21_StageOrder ==
    /\ [][\A c \in Callers : pc'[c] # pc[c] => StageStep(c)]_vars
    /\ [](\A c \in Callers : pc[c] \in {"finalize", "reload", "return"} =>
             \A i \in 1..Len(workers[c]) : Finished(workers[c][i]))
    /\ [][\A c \in Callers : pc[c] \in {"finalize", "reload", "return"} =>
             /\ \A w \in DOMAIN fragments' : w \in DOMAIN fragments /\ fragments'[w] = fragments[w]
             /\ collection' \subseteq collection]_vars

\* a run with three work items, one of them failed, has finalized and returned
C21_Witness ==
    \E i \in 1..Len(lastRet) :
        /\ lastRet[i].result.kind = "done"
        /\ Len(lastRet[i].items) = 3
        /\ \E j \in 1..3 : lastRet[i].outcome[j] = "failed"
        /\ \E j \in 1..3 : lastRet[i].outcome[j] = "done"

MaxOf(S) == CHOOSE m \in S : \A k \in S : k <= m
\* the readable content of manifest.json
Known(m) == IF m.exists /\ m.ok THEN m.map ELSE EmptyMap

\* C22: finalize merges the fragments in ascending worker-id order, last
\* write wins: for every set of fragments (worker ids 2 and 10 among them) a
\* filename ends with the value of the fragment with the highest worker id
\* that holds it, and a filename in no fragment keeps its canonical value.
C22_MergeByWorkerId ==
    [][\A c \in Callers :
          (pc[c] = "finalize" /\ ~force[c] /\ result'[c].kind = "done") =>
              \A x \in Names :
                 LET holders == {w \in DOMAIN fragments : x \in DOMAIN fragments[w]}
                 IN IF holders = {}
                    THEN /\ x \in DOMAIN manifest'.map <=> x \in DOMAIN Known(manifest)
                         /\ x \in DOMAIN Known(manifest) =>
                               manifest'.map[x] = Known(manifest)[x]
                    ELSE /\ x \in DOMAIN manifest'.map
                         /\ manifest'.map[x] = fragments[MaxOf(holders)][x]]_vars

\* the state right after a finalize(force=false) that returned
AfterFinalize(c) ==
    pc[c] \in {"reload", "return"} /\ ~force[c] /\ result[c].kind = "done"

C24_ForcedReset ==
    /\ [][\A c \in Callers : (pc[c] = "finalize" /\ force[c] /\ pc'[c] \in {"reload", "return"}) =>
             /\ result'[c] = DoneResult(0, 0)
             /\ collection' = {}
             /\ fragments' = EmptyMap
             /\ manifest' = [exists |-> TRUE, ok |-> TRUE, map |-> EmptyMap]]_vars
    /\ [][~(collection \subseteq collection') =>
             \E c \in Callers :
                 pc[c] = "finalize" /\ force[c] /\ pc'[c] \in {"reload", "return"}]_vars

\* a forced finalize has returned after a worker of its run had upserted
\* chunks and written its fragment
C24_Witness ==
    \E c \in Callers :
        /\ pc[c] \in {"reload", "return"} /\ force[c] /\ result[c].kind = "done"
        /\ \E i \in 1..Len(workers[c]) :
              workers[c][i].st = "done" /\ workers[c][i].total > 0
        /\ collection = {} /\ fragments = EmptyMap /\ manifest.map = EmptyMap

\* C25: within one run every work item has its own worker id, also when the
\* run has more than N work items: the fragment of an item that has written
\* it is the file of that item's id, no other item of the run writes that
\* file, and it records only filenames the item covers (its paths, or the
\* archive of its slice).
C25_FragmentOwnership ==
    /\ [](\A c \in Callers : pc[c] \in {"embed", "finalize"} =>
             \A i \in 1..Len(workers[c]) : workers[c][i].st = "done" =>
                 /\ (i - 1) \in DOMAIN fragments
                 /\ fragSrc[i - 1] = workers[c][i].pending
                 /\ DOMAIN fragments[i - 1] \subseteq ItemNames(workers[c][i].work))
    /\ [][\A c \in Callers : (pc[c] = "embed" /\ pc'[c] = "embed") =>
             \A i \in 1..Len(workers[c]) : workers[c][i].st = "done" =>
                 /\ (i - 1) \in DOMAIN fragments'
                 /\ fragments'[i - 1] = fragments[i - 1]]_vars

\* a run with more work items than N in which every item wrote its fragment
C25_Witness ==
    \E c \in Callers :
        /\ pc[c] = "embed"
        /\ Len(workers[c]) > n_batches
        /\ \A i \in 1..Len(workers[c]) : workers[c][i].st = "done"
        /\ Cardinality(DOMAIN fragments) = Len(workers[c])

\* the paths of a Files item that the loader finds / does not find
Loadable(work) == {p \in Range(work.paths) : p \in DOMAIN docs}
Unloadable(work) == {p \in Range(work.paths) : p \notin DOMAIN docs}

\* C26: for a Files item of several paths, a loader failure on one path does
\* not fail the item: the worker's parse step ends with the chunks of the
\* remaining paths upserted, and its write_manifest step ends with the item
\* done and the remaining paths recorded in its fragment.
C26_LoaderFailureSkipsFile ==
    [][\A c \in Callers : pc[c] = "embed" =>
          \A i \in 1..Len(workers[c]) :
             LET w == workers[c][i]
                 v == workers'[c][i]
             IN (/\ w.work.type = "files" /\ Len(w.work.paths) > 1
                 /\ Unloadable(w.work) # {} /\ Loadable(w.work) # {}
                 /\ v.st # w.st) =>
                    /\ w.st = "queued" =>
                          /\ v.st = "flushed"
                          /\ \A p \in Loadable(w.work) :
                                \E ch \in v.pending : ch.source = p /\ ch \in collection'
                    /\ w.st = "flushed" =>
                          /\ v.st = "done"
                          /\ Loadable(w.work) \subseteq DOMAIN fragments'[i - 1]]_vars

\* C30: in a single run, the fragments that record a given filename (such as
\* the fragments of two slices of one archive) record the same fingerprint
\* value for it.
C30_FragmentsAgree ==
    \A c \in Callers : pc[c] \in {"embed", "finalize"} =>
        \A i, j \in 1..Len(workers[c]) :
            (workers[c][i].st = "done" /\ workers[c][j].st = "done") =>
                \A x \in DOMAIN fragments[i - 1] \cap DOMAIN fragments[j - 1] :
                    fragments[i - 1][x] = fragments[j - 1][x]

\* the entries of a slice that give a text unit
GoodEntries(work) ==
    SelectSeq(work.entries,
              LAMBDA e : /\ e \in Range(docs[work.zip_path].entries)
                         /\ e \notin UnreadableEntries
                         /\ e \notin BlankEntries)
Parsed(w) == w.st \in {"flushed", "done"}

\* C27: for a ZipEntries item, an entry that cannot be read or decoded, or
\* whose text is empty or whitespace-only, gives no text unit and does not
\* fail the item; every other assigned entry is in exactly one yielded batch,
\* in assignment order, and every yielded batch is non-empty and has at most
\* EMBED_BATCH_SIZE units; the item's chunks are those of the yielded units.
C27_ZipBatches ==
    \A c \in Callers : \A i \in 1..Len(workers[c]) :
        LET w == workers[c][i]
            batches == IterZipBatches(w.work.entries, docs[w.work.zip_path].entries)
        IN w.work.type = "zip_entries" =>
              /\ w.st # "failed"
              /\ Concat(batches) = GoodEntries(w.work)
              /\ \A b \in 1..Len(batches) :
                    Len(batches[b]) >= 1 /\ Len(batches[b]) <= EmbedBatchSize
              /\ Parsed(w) =>
                    /\ {ch.filename : ch \in w.pending} = Range(GoodEntries(w.work))
                    /\ w.total = Len(GoodEntries(w.work))
                    /\ w.pending \subseteq collection

\* a parsed slice with an unreadable and a blank entry whose other entries
\* were yielded in more than one batch
C27_Witness ==
    \E c \in Callers : \E i \in 1..Len(workers[c]) :
        LET w == workers[c][i]
        IN /\ w.work.type = "zip_entries" /\ Parsed(w)
           /\ {"u1", "w1"} \subseteq Range(w.work.entries)
           /\ Len(IterZipBatches(w.work.entries, docs[w.work.zip_path].entries)) > 1
           /\ w.total = Len(w.work.entries) - 2

\* the inputs of the process that are inside the upsert loop of flush
Upserting == {<<c, i>> \in Callers \X (1..4) :
                 i <= Len(workers[c]) /\ workers[c][i].st = "upserting"}

\* C28: within one worker process, however many work items it processes
\* concurrently, at most one of them is inside the upsert loop at any time,
\* and every upsert into the collection is made by that one, with its chunks.
C28_UpsertsSerialized ==
    /\ [](Cardinality(Upserting) <= 1)
    /\ [][collection' # collection =>
             \E u \in Upserting :
                 /\ Upserting = {u}
                 /\ collection' \ collection \subseteq workers[u[1]][u[2]].pending]_vars

\* one input is inside the upsert loop with a chunk upserted and one to go,
\* while another input has its chunks parsed and waits for the lock
C28_Witness ==
    \E c \in Callers : \E i, j \in 1..Len(workers[c]) :
        /\ i # j
        /\ workers[c][i].st = "upserting"
        /\ NotUpserted(workers[c][i]) # {}
        /\ NotUpserted(workers[c][i]) # workers[c][i].pending
        /\ workers[c][j].st = "parsed" /\ workers[c][j].pending # {}

\* C29: no caller of reindex is rejected or starved: with three concurrent
\* callers, every run terminating and the lock granted fairly, a caller that
\* waits leaves the wait only by acquiring the gate, every waiting caller
\* eventually acquires it and is at its own scan, and every caller past the
\* gate eventually leaves reindex, with the result of its own run (or, when
\* the reload callback it passed has raised, with that exception).
C29_NoStarvation ==
    /\ [][\A c \in Callers : pc[c] = "wait" => pc'[c] \in {"wait", "scan"}]_vars
    /\ \A c \in Callers : (pc[c] = "wait") ~> (pc[c] = "scan" /\ lock = c)
    /\ \A c \in Callers : (pc[c] = "scan") ~> (pc[c] = "return")
    /\ [](\A c \in Callers : pc[c] = "return" =>
             \/ result[c].kind \in {"done", "empty"}
             \/ result[c].kind = "raised" /\ reload_fn[c] /\ reloaded[c])
    /\ \A c \in Callers : (pc[c] = "return") ~> (pc[c] = "idle" /\ lock # c)

\* one caller is past the gate while the two others wait for it
C29_Witness ==
    \E c \in Callers :
        /\ lock = c /\ pc[c] \in {"scan", "build", "embed", "finalize", "reload", "return"}
        /\ \A d \in Callers \ {c} : pc[d] = "wait"

\* C31: when the scan selects nothing, the message is the "already indexed"
\* one iff the docs directory exists and at least one file in it is a key of
\* the canonical manifest, and the "no documents found" one otherwise.
C31_EmptyMessage ==
    [][\A c \in Callers :
          (pc[c] = "scan" /\ pc'[c] = "return") =>
              /\ result'[c].kind = "empty"
              /\ result'[c].msg \in {"already_indexed", "no_documents"}
              /\ result'[c].msg = "already_indexed" <=>
                    /\ docsDir
                    /\ \E p \in DOMAIN docs : p \in DOMAIN Known(manifest)]_vars

\* a run has ended at the scan with the "already indexed" message, after the
\* run before it had indexed the directory
C31_Witness ==
    /\ \E c \in Callers :
          /\ pc[c] = "return" /\ result[c] = EmptyExit("already_indexed")
          /\ DOMAIN docs \cap DOMAIN Known(manifest) # {}
    /\ prevRet # << >> /\ prevRet[1].kind = "done"

\* C32: the fingerprint a worker records for a file in its fragment is the
\* fingerprint of the version whose content it embedded; and when the file
\* has been overwritten since the worker read it, the manifest that finalize
\* writes does not hold the fingerprint of the new version, so that the next
\* scan selects the file.
C32_FragmentRecordsEmbeddedVersion ==
    /\ [](\A c \in Callers : pc[c] = "embed" =>
             \A i \in 1..Len(workers[c]) : workers[c][i].st = "done" =>
                 \A ch \in workers[c][i].pending :
                     fragments[i - 1][ch.source] = ch.text)
    /\ [][\A c \in Callers :
             (pc[c] = "finalize" /\ ~force[c] /\ result'[c].kind = "done") =>
                 \A w \in DOMAIN fragSrc \cap DOMAIN fragments : \A ch \in fragSrc[w] :
                     (/\ ch.source \in DOMAIN docs
                      /\ Fingerprint(docs[ch.source]) # ch.text) =>
                         ManifestGet(manifest'.map, ch.source) #
                             Fingerprint(docs[ch.source])]_vars

\* C33: every file selected by a scan is covered by at least one work item of
\* that run, an archive with no non-directory entries included; so after a
\* non-forced run without failures and without changes to the directory,
\* every selected file is recorded in the canonical manifest with its
\* fingerprint and the next scan does not select it.
C33_SelectedFilesCovered ==
    /\ \A c \in Built : \A k \in 1..Len(files[c]) :
          \E j \in 1..Len(workers[c]) : files[c][k] \in ItemNames(workers[c][j].work)
    /\ \A i \in 1..Len(lastRet) :
          LET r == lastRet[i]
          IN (/\ ~r.force /\ r.result.kind = "done" /\ r.failures = 0
              /\ r.atScan[1].edits = r.atEnd.edits) =>
                 \A k \in 1..Len(r.files) :
                     ManifestGet(r.atEnd.manifest.map, r.files[k]) =
                         Fingerprint(r.atEnd.docs[r.files[k]])

\* C34: every fragment that a run's finalize merges into the canonical
\* manifest was written by a successful worker of that run: the work item of
\* its worker id exists in the run and succeeded, so a fragment left by an
\* earlier run is not merged for an item that reused its id and failed.
C34_MergedFragmentsOfThisRun ==
    [][\A c \in Callers :
          (pc[c] = "finalize" /\ result'[c].kind = "done") =>
              \A w \in DOMAIN FinalFragments(force[c]) :
                  /\ w + 1 <= Len(workers[c])
                  /\ workers[c][w + 1].st = "done"]_vars

Inside(c) == pc[c] \in {"scan", "build", "embed", "finalize", "reload", "return"}

\* C35: the run gate is released on every exit path of reindex: whenever a
\* caller leaves reindex (after the empty-scan return, the normal return, or
\* an exception of scan, batch building, finalize or the reload callback) the
\* lock is free, the lock is only held by a caller inside reindex, and a
\* caller that waits gets past the gate whatever the runs before it ended with.
C35_GateReleased ==
    /\ [][\A c \in Callers : (Inside(c) /\ pc'[c] = "idle") => lock' = NoOne]_vars
    /\ [](lock # NoOne => lock \in Callers /\ Inside(lock))
    /\ \A c \in Callers : (pc[c] = "wait") ~> (pc[c] = "scan" /\ lock = c)

\* a caller is past the gate right after a run that raised
C35_Witness ==
    \E c \in Callers :
        /\ pc[c] = "scan" /\ lock = c
        /\ prevRet # << >> /\ prevRet[1].kind = "raised"

\* C36: reindex(force=true) resets the collection and the manifest also when
\* the docs directory is missing or holds no file: after it has returned in
\* that case the collection is empty and the canonical manifest has no entry.
C36_ForceResetsEmptyDirectory ==
    \A i \in 1..Len(lastRet) :
        LET r == lastRet[i]
        IN (/\ r.force
            /\ DOMAIN r.atScan[1].docs = {}
            /\ r.atScan[1].edits = r.atEnd.edits) =>
               /\ r.atEnd.collection = {}
               /\ DOMAIN Known(r.atEnd.manifest) = {}

\* C37: across the reindex(force=false) runs, whatever workers fail, the key
\* set of the canonical manifest never loses a filename: a step after which a
\* filename is missing from it is the finalize of a forced run.
C37_ManifestKeysKept ==
    [][\/ DOMAIN Known(manifest) \subseteq DOMAIN Known(manifest')
       \/ \E c \in Callers :
             pc[c] = "finalize" /\ force[c] /\ pc'[c] \in {"reload", "return"}]_vars

\* a non-forced finalize has returned with a failed item in its run, and the
\* manifest holds a filename that no item of the run covered
C37_Witness ==
    \E c \in Callers :
        /\ pc[c] \in {"reload", "return"} /\ ~force[c] /\ result[c].kind = "done"
        /\ \E j \in 1..Len(workers[c]) : workers[c][j].st = "failed"
        /\ \E x \in DOMAIN Known(manifest) :
              \A j \in 1..Len(workers[c]) : x \notin ItemNames(workers[c][j].work)

\* the chunks of work item i of the run of c that are in the collection
ItemChunks(c, i) == {ch \in collection : ch.id[1] = runId[c] /\ ch.id[2] = i - 1}

\* C38: if parsing or embedding of a file or entry batch of a work item
\* raises, the worker has upserted no chunk of the item and writes no
\* fragment for it; the upserts of an item begin only after all of its
\* inputs were parsed and embedded.
C38_ParseFailureLeavesNothing ==
    /\ [](\A c \in Callers : pc[c] = "embed" =>
             \A i \in 1..Len(workers[c]) :
                 /\ workers[c][i].st \in {"queued", "parsed"} => ItemChunks(c, i) = {}
                 /\ (workers[c][i].st = "failed" /\ workers[c][i].total = 0) =>
                        ItemChunks(c, i) = {} /\ (i - 1) \notin DOMAIN fragments)
    /\ [][\A c \in Callers : pc[c] = "embed" =>
             \A i \in 1..Len(workers[c]) :
                 (workers[c][i].st = "queued" /\ workers'[c][i].st = "failed") =>
                     collection' = collection /\ fragments' = fragments]_vars

\* an item of two files failed in its parse because one of them was removed,
\* while another item of the run has its chunks upserted
C38_Witness ==
    \E c \in Callers : \E i, j \in 1..Len(workers[c]) :
        /\ pc[c] = "embed"
        /\ workers[c][i].st = "failed" /\ workers[c][i].total = 0
        /\ Len(workers[c][i].work.paths) = 2
        /\ Range(workers[c][i].work.paths) \ DOMAIN docs # {}
        /\ workers[c][j].st \in {"flushed", "done"} /\ ItemChunks(c, j) # {}

====
